---- MODULE Spec2Model ----
(***************************************************************************)
(* Airport management system: the Express routes of the API server and    *)
(* the Sequelize/SQLite schema of database.js.                             *)
(*                                                                         *)
(* The store is the five tables of database.js.  Every handler is         *)
(* modelled await by await: a step is one call of the store and the code  *)
(* that follows it up to the next call, so that requests interleave       *)
(* exactly where the event loop lets them, in every specification.  The   *)
(* code before the first call of a request belongs to its first step; the *)
(* store calls of the validators of a chain are calls of the request.     *)
(*                                                                         *)
(* Spec           one client and one administrator, with one airplane.    *)
(* SpecConcurrent two clients on a schedule that is only built up (the    *)
(*                create routes).                                          *)
(* SpecFleet      one client on a schedule whose flights are moved        *)
(*                between two airplanes, and whose times arrive as JSON   *)
(*                strings.                                                 *)
(* SpecDirectory  two administrators whose requests for airports,         *)
(*                itineraries and airplanes interleave at every await.    *)
(* SpecFair       two clients that book, cancel and list while an         *)
(*                administrator creates and deletes a flight, all         *)
(*                interleaved at every await; every reservation handler   *)
(*                that is suspended at an await is resumed once the store *)
(*                has answered.                                            *)
(*                                                                         *)
(* part_000 calls app.set at lines 8 and 9, before the declaration of app *)
(* at line 11: as the file stands, loading it throws a ReferenceError and  *)
(* no route is served.  The model is of the routes as they are served once *)
(* app is declared before its first use; Init is the store that           *)
(* sequelize.sync() makes of an empty database.                            *)
(*                                                                         *)
(* Strings are sequences of one-character strings, so that the validators *)
(* (notEmpty, trim, isAlphanumeric, isLength) are computed, not assumed.  *)
(***************************************************************************)
EXTENDS Integers, Sequences, FiniteSets, TLC

VARIABLES
    airports,       \* table Airport:     ID -> row
    itineraries,    \* table Itinerary:   ID -> row
    airplanes,      \* table Airplane:    ID -> row
    flights,        \* table Flights:     ID -> row
    reservations,   \* table Reservation: ID -> row
    created,        \* IDs of the stored reservations, in the order of their INSERTs
    req,            \* per client and administrator: the request in flight, its locals
    last            \* the HTTP response sent by the last step (NoResponse if none)

store == <<airports, itineraries, airplanes, flights, reservations>>
vars  == <<airports, itineraries, airplanes, flights, reservations, created, req, last>>

(***************************************************************************)
(* Bounds of the model.                                                    *)
(***************************************************************************)
MaxReservations == 2
FlightIDs       == {1, 2}
AirportIDs      == {1}
ItineraryIDs    == {1}
AirplaneIDs     == {1, 2}
Clients         == {"c1", "c2"}
Administrators  == {"a1", "a2"}
Requesters      == Clients \cup Administrators
DirectoryIDs    == {1, 2}
ReservationIDs  == 1..MaxReservations

\* The inputs the requests are drawn from.
AirportNames    == {<<"A">>, <<"B">>}
ItineraryCodes  == {<<"X">>}
DirectoryCodes  == {<<"X">>, <<"Y">>}
AirplaneNames   == {<<"P">>, <<" ">>}
Fleet           == {[Name |-> <<"P">>, Capacity |-> 1], [Name |-> <<"Q">>, Capacity |-> 2]}
AirplaneModels  == {<<"M">>}
Capacities      == {0, 1, 2}
Times           == {[json |-> "number", text |-> <<"0">>],
                    [json |-> "number", text |-> <<"1">>]}
FleetTimes      == {[json |-> "string", text |-> <<"9">>],
                    [json |-> "string", text |-> <<"1", "0">>]}
Durations       == {60}
Latitudes       == {0}
Longitudes      == {0}
Timezones       == {<<"G","M","T","+","1">>}
PassengerNames  == {<<"A","A">>, <<"B","B">>, <<"C">>}

NULL == [null |-> TRUE]

(***************************************************************************)
(* express-validator checks used by the validation chains.                 *)
(***************************************************************************)
AlphanumericChars == {"A", "B", "C", "M", "P", "Q", "X", "Y"}
DigitChars        == {"0", "1", "2", "3", "4", "5", "6", "7", "8", "9"}

notEmpty(s) == Len(s) > 0

isAlphanumeric(s) ==
    /\ Len(s) > 0
    /\ \A i \in 1..Len(s) : s[i] \in AlphanumericChars \cup DigitChars

RECURSIVE trimLeft(_)
trimLeft(s) == IF s # <<>> /\ Head(s) = " " THEN trimLeft(Tail(s)) ELSE s

RECURSIVE trimRight(_)
trimRight(s) ==
    IF s # <<>> /\ s[Len(s)] = " " THEN trimRight(SubSeq(s, 1, Len(s) - 1)) ELSE s

trim(s) == trimRight(trimLeft(s))

isIntMin(v, min) == v \in Int /\ v >= min

isFloatRange(v, min, max) == v \in Int /\ v >= min /\ v <= max

(***************************************************************************)
(* The store: SQLite through Sequelize.                                    *)
(***************************************************************************)
Max(S) == CHOOSE x \in S : \A y \in S : y <= x

\* Mutant: the lowest ID that is free.
NextIDLowestFree(table) ==
    CHOOSE id \in 1..(Cardinality(DOMAIN table) + 1) :
        /\ id \notin DOMAIN table
        /\ \A j \in 1..(id - 1) : j \in DOMAIN table

\* ID INTEGER PRIMARY KEY is the rowid: an INSERT without ID gets the largest
\* stored ID plus one (1 in an empty table), so the ID of a deleted last row
\* is given out again.
NextID(table) == IF DOMAIN table = {} THEN 1 ELSE Max(DOMAIN table) + 1

Remove(table, ids) == [id \in DOMAIN table \ ids |-> table[id]]

Insert(table, id, row) == [i \in DOMAIN table \cup {id} |-> IF i = id THEN row ELSE table[i]]

\* Foreign keys.  Sequelize opens SQLite with PRAGMA FOREIGN_KEYS=ON and sync()
\* declares one REFERENCES clause per association of database.js.  The foreign
\* key columns are declared in the models without allowNull, so hasMany/hasOne
\* give them ON DELETE CASCADE (Itinerary.OriginAirportID,
\* Itinerary.DestinationAirportID, Flights.ItineraryID, Reservation.FlightID)
\* and the column that has only a belongsTo gets ON DELETE NO ACTION
\* (Flights.AirplaneID).
ItinerariesOfAirports(A) ==
    {i \in DOMAIN itineraries :
        itineraries[i].OriginAirportID \in A \/ itineraries[i].DestinationAirportID \in A}

FlightsOfItineraries(I) == {f \in DOMAIN flights : flights[f].ItineraryID \in I}

FlightsOfAirplane(a) == {f \in DOMAIN flights : flights[f].AirplaneID = a}

ReservationsOfFlights(F) == {r \in DOMAIN reservations : reservations[r].FlightID \in F}

\* created follows the table: the rows a DELETE (or its cascade) takes away leave it.
CreatedWithout(ids) == SelectSeq(created, LAMBDA r : r \notin ids)

(***************************************************************************)
(* Responses.                                                              *)
(***************************************************************************)
\* op, status, error, body: the route and what it answered.  The other fields
\* describe the request that was answered: its client and input, whether it ran
\* without another request writing to the store in between (clean), whether it
\* began right after the cancel it follows up was answered 200 (follows: see
\* Follows), and, for a cancel answered 200, the flight whose last free seat the
\* DELETE gave back (freed, 0 if none).
NoResponse == [op |-> "none", status |-> 0, error |-> "", client |-> "",
               clean |-> FALSE, input |-> NULL, body |-> NULL, follows |-> FALSE,
               freed |-> 0]

\* The routes whose responses the model records in last.
Observed == {"book", "cancel", "list"}

Reply(op, status, error) ==
    IF op \in Observed
    THEN [NoResponse EXCEPT !.op = op, !.status = status, !.error = error]
    ELSE NoResponse

\* A request that is in flight has been overtaken once another request has written
\* to the store since it started.
Overtaken(r) == IF r.pc = "idle" THEN r ELSE [r EXCEPT !.clean = FALSE]

Idle == [pc |-> "idle", clean |-> FALSE, input |-> NULL, existingFlight |-> NULL,
         reservation |-> NULL, instance |-> NULL, errors |-> FALSE, follows |-> FALSE]

\* The response before a request begins is a cancel answered 200, and the request
\* is a cancel of the same ID, or a book on the flight that was full until that
\* cancel.
Follows(op, input) ==
    /\ last.op = "cancel"
    /\ last.status = 200
    /\ \/ op = "cancel" /\ input.ID = last.input.ID
       \/ op = "book" /\ input.FlightID = last.freed

\* A request as it begins.
Begun(op, input) ==
    [Idle EXCEPT !.clean = TRUE, !.input = input, !.follows = Follows(op, input)]

\* The response to client c, whose request is r.
Answer(c, r, op, status, error, body) ==
    [op |-> op, status |-> status, error |-> error, client |-> c, clean |-> r.clean,
     input |-> r.input, body |-> body, follows |-> r.follows, freed |-> 0]

\* The handler of administrator a is suspended at the store call pc, with the body
\* of its request (input) and the row an earlier store call gave it (instance).
Suspend(a, pc, input, instance) ==
    /\ req' = [req EXCEPT ![a] = [Idle EXCEPT !.pc = pc, !.input = input,
                                              !.instance = instance]]
    /\ last' = NoResponse
    /\ UNCHANGED <<airports, itineraries, airplanes, flights, reservations, created>>

\* The handler of administrator a has not been called yet: the request is suspended
\* at the store call pc of a validator of its chain, and errors tells whether
\* validationResult(req) holds an error by now.
Validating(a, pc, input, errors) ==
    /\ req' = [req EXCEPT ![a] = [Idle EXCEPT !.pc = pc, !.input = input,
                                              !.errors = errors]]
    /\ last' = NoResponse
    /\ UNCHANGED <<airports, itineraries, airplanes, flights, reservations, created>>

\* An administrative request that is answered without a write.
AdminReject(a, op, status, error) ==
    /\ last' = Reply(op, status, error)
    /\ req' = [req EXCEPT ![a] = Idle]
    /\ UNCHANGED <<airports, itineraries, airplanes, flights, reservations, created>>

\* An INSERT or UPDATE that the store refused (UNIQUE or FOREIGN KEY): the catch
\* answers 500.
AdminFailed(a, op, error) ==
    /\ last' = [NoResponse EXCEPT !.op = op, !.status = 500, !.error = error,
                                  !.client = a, !.input = req[a].input]
    /\ req' = [req EXCEPT ![a] = Idle]
    /\ UNCHANGED <<airports, itineraries, airplanes, flights, reservations, created>>

\* An INSERT or UPDATE that the store refused in a handler without try/catch: the
\* rejection of the promise is left unhandled and no response is sent.  The request
\* is left hanging, or the process exits and takes every request in flight with it.
AdminUnhandled(a) ==
    /\ \/ req' = [req EXCEPT ![a] = Idle]
       \/ req' = [d \in Requesters |-> Idle]
    /\ last' = NoResponse
    /\ UNCHANGED <<airports, itineraries, airplanes, flights, reservations, created>>

\* The bookkeeping of an administrative request that wrote to the store.
AdminWrote(a, op, status) ==
    /\ last' = Reply(op, status, "")
    /\ req' = [d \in Requesters |-> IF d = a THEN Idle ELSE Overtaken(req[d])]

\* The bound of the model on the IDs of a table (ids) leaves room for one more
\* create request: each of the requests in flight at one of pcs inserts one row at
\* most, and none if its validation has failed.
Vacant(table, pcs, ids) ==
    NextID(table)
        + Cardinality({a \in Administrators : req[a].pc \in pcs /\ ~req[a].errors}) \in ids

\* instance.save(): the UPDATE sets the columns whose value differs from the value
\* the instance was read with; without such a column no UPDATE is sent.
Written(new, old) == {f \in DOMAIN new : new[f] # old[f]}

\* instance.update(values) writes every column of values once one of them differs.
Updated(new, old) == IF Written(new, old) = {} THEN {} ELSE DOMAIN new

Saved(row, new, written) == [f \in DOMAIN row |-> IF f \in written THEN new[f] ELSE row[f]]

(***************************************************************************)
(* Airport routes.                                                         *)
(***************************************************************************)
Digits == <<"0", "1", "2", "3", "4", "5", "6", "7", "8", "9">>
DigitValue(ch) == (CHOOSE i \in 1..10 : Digits[i] = ch) - 1

RECURSIVE parseInt(_)
parseInt(s) == IF s = <<>> THEN 0 ELSE 10 * parseInt(SubSeq(s, 1, Len(s) - 1)) + DigitValue(s[Len(s)])

\* /^GMT[+-]\d{1,2}$/ and parseInt(value.substring(4)) within 0..12
TimezoneValid(tz) ==
    /\ notEmpty(tz)
    /\ Len(tz) \in {5, 6}
    /\ SubSeq(tz, 1, 3) = <<"G", "M", "T">>
    /\ tz[4] \in {"+", "-"}
    /\ \A i \in 5..Len(tz) : tz[i] \in DigitChars
    /\ parseInt(SubSeq(tz, 5, Len(tz))) >= 0
    /\ parseInt(SubSeq(tz, 5, Len(tz))) <= 12

AirportNameExists(Name) == \E a \in DOMAIN airports : airports[a].Name = Name

\* The chain with its store call: the custom validator of Name awaits
\* Airport.findOne({ where: { Name } }).
airportValidationConstraints(Name, Latitude, Longitude, Timezone) ==
    /\ notEmpty(Name)
    /\ isAlphanumeric(Name)
    /\ ~AirportNameExists(Name)
    /\ isFloatRange(Latitude, -90, 90)
    /\ isFloatRange(Longitude, -180, 180)
    /\ TimezoneValid(Timezone)

AirportRow(Name, Latitude, Longitude, Timezone) ==
    [Name |-> Name, Latitude |-> Latitude, Longitude |-> Longitude, Timezone |-> Timezone]

AirportCreating == {"airport/create:findOne", "airport/create:create"}

\* POST /airport/create up to the answer of the validator's Airport.findOne and the
\* check of validationResult.
AirportCreateValidate(a, ids, Name, Latitude, Longitude, Timezone) ==
    /\ req[a].pc = "idle"
    /\ IF ~airportValidationConstraints(Name, Latitude, Longitude, Timezone)
       THEN AdminReject(a, "airport/create", 422, "validation")
       ELSE /\ Vacant(airports, AirportCreating, ids)
            /\ Suspend(a, "airport/create:findOne",
                       AirportRow(Name, Latitude, Longitude, Timezone), NULL)

\* ... up to the answer of the handler's Airport.findOne.
AirportCreateFindOne(a) ==
    /\ req[a].pc = "airport/create:findOne"
    /\ IF AirportNameExists(req[a].input.Name)
       THEN AdminReject(a, "airport/create", 409, "Airport name already exists.")
       ELSE Suspend(a, "airport/create:create", req[a].input, NULL)

\* ... Airport.create.  Name is UNIQUE: the INSERT of a name that is stored by now
\* is rejected, and the handler has no try/catch around it.
AirportCreateInsert(a) ==
    /\ req[a].pc = "airport/create:create"
    /\ IF AirportNameExists(req[a].input.Name)
       THEN AdminUnhandled(a)
       ELSE /\ airports' = Insert(airports, NextID(airports), req[a].input)
            /\ AdminWrote(a, "airport/create", 200)
            /\ UNCHANGED <<itineraries, airplanes, flights, reservations, created>>

\* PUT /airport/update up to the answer of the validator's Airport.findOne, the
\* check of id and the check of validationResult.
AirportUpdateValidate(a, id, Name, Latitude, Longitude, Timezone) ==
    /\ req[a].pc = "idle"
    /\ IF id <= 0
       THEN AdminReject(a, "airport/update", 422,
                        "Invalid request body - missing or invalid airport ID")
       ELSE IF ~airportValidationConstraints(Name, Latitude, Longitude, Timezone)
       THEN AdminReject(a, "airport/update", 422, "validation")
       ELSE Suspend(a, "airport/update:findByPk",
                    [id |-> id, row |-> AirportRow(Name, Latitude, Longitude, Timezone)],
                    NULL)

\* ... up to the answer of Airport.findByPk.  airport.update() sends no query when
\* no value differs from the row found: the handler answers 200 without another
\* call of the store.
AirportUpdateFindByPk(a) ==
    /\ req[a].pc = "airport/update:findByPk"
    /\ LET id == req[a].input.id
       IN  IF id \notin DOMAIN airports
           THEN AdminReject(a, "airport/update", 404, "Airport not found")
           ELSE IF Updated(req[a].input.row, airports[id]) = {}
           THEN AdminReject(a, "airport/update", 200, "")
           ELSE Suspend(a, "airport/update:update", req[a].input, airports[id])

\* ... the UPDATE of airport.update().  An UPDATE that matches no row is no error;
\* one that gives the row the Name of another row is rejected, and the handler has
\* no try/catch around it.
AirportUpdateSave(a) ==
    /\ req[a].pc = "airport/update:update"
    /\ LET id == req[a].input.id
           new == req[a].input.row
           written == Updated(new, req[a].instance)
       IN  IF id \notin DOMAIN airports
           THEN AdminReject(a, "airport/update", 200, "")
           ELSE IF /\ "Name" \in written
                   /\ \E b \in DOMAIN airports \ {id} : airports[b].Name = new.Name
           THEN AdminUnhandled(a)
           ELSE /\ airports' = [airports EXCEPT ![id] = Saved(airports[id], new, written)]
                /\ AdminWrote(a, "airport/update", 200)
                /\ UNCHANGED <<itineraries, airplanes, flights, reservations, created>>

\* DELETE /airport/delete up to the answer of Airport.findByPk.
AirportDeleteFindByPk(a, id) ==
    /\ req[a].pc = "idle"
    /\ IF id <= 0
       THEN AdminReject(a, "airport/delete", 422,
                        "Invalid request body - missing or invalid airport ID")
       ELSE IF id \notin DOMAIN airports
       THEN AdminReject(a, "airport/delete", 404, "Airport not found")
       ELSE Suspend(a, "airport/delete:destroy", [id |-> id], NULL)

\* ... airport.destroy(): the itineraries of the airport, their flights and the
\* reservations of these go with it (ON DELETE CASCADE).  A DELETE that matches no
\* row is no error.
AirportDeleteDestroy(a) ==
    /\ req[a].pc = "airport/delete:destroy"
    /\ LET id == req[a].input.id
           I == ItinerariesOfAirports({id})
           F == FlightsOfItineraries(I)
           R == ReservationsOfFlights(F)
       IN  IF id \notin DOMAIN airports
           THEN AdminReject(a, "airport/delete", 200, "")
           ELSE /\ airports' = Remove(airports, {id})
                /\ itineraries' = Remove(itineraries, I)
                /\ flights' = Remove(flights, F)
                /\ reservations' = Remove(reservations, R)
                /\ created' = CreatedWithout(R)
                /\ AdminWrote(a, "airport/delete", 200)
                /\ UNCHANGED airplanes

(***************************************************************************)
(* Itinerary routes.                                                       *)
(***************************************************************************)
\* The checks of the chain that need no store call.
itineraryValidationConstraints(code, originAirportId, destinationAirportId, duration) ==
    /\ notEmpty(code)
    /\ isAlphanumeric(trim(code))
    /\ isIntMin(originAirportId, 1)
    /\ isIntMin(destinationAirportId, 1)
    /\ isIntMin(duration, 1)

ItineraryCodeExists(code) == \E i \in DOMAIN itineraries : itineraries[i].Code = code

ItineraryRow(code, originAirportId, destinationAirportId, duration) ==
    [Code |-> code, OriginAirportID |-> originAirportId,
     DestinationAirportID |-> destinationAirportId, DurationMinutes |-> duration]

ItineraryCreating == {"itinerary/create:destination", "itinerary/create:findOne",
                      "itinerary/create:create"}

\* POST /itinerary/create up to the answer of Airport.findOne for originAirportId.
\* The chains run one after the other and none of them bails: whatever the chain
\* of originAirportId finds, the chain of destinationAirportId is run next, and
\* the handler, which answers 422, only after it.
ItineraryCreateOrigin(a, ids, code, originAirportId, destinationAirportId, duration) ==
    /\ req[a].pc = "idle"
    /\ LET errors == \/ ~itineraryValidationConstraints(code, originAirportId,
                                                        destinationAirportId, duration)
                     \/ originAirportId \notin DOMAIN airports
       IN  /\ errors \/ Vacant(itineraries, ItineraryCreating, ids)
           /\ Validating(a, "itinerary/create:destination",
                         ItineraryRow(trim(code), originAirportId, destinationAirportId,
                                      duration), errors)

\* ... up to the answer of Airport.findOne for destinationAirportId and the check
\* of validationResult.
ItineraryCreateDestination(a) ==
    /\ req[a].pc = "itinerary/create:destination"
    /\ IF req[a].errors \/ req[a].input.DestinationAirportID \notin DOMAIN airports
       THEN AdminReject(a, "itinerary/create", 422, "validation")
       ELSE Suspend(a, "itinerary/create:findOne", req[a].input, NULL)

\* ... up to the answer of Itinerary.findOne.
ItineraryCreateFindOne(a) ==
    /\ req[a].pc = "itinerary/create:findOne"
    /\ IF ItineraryCodeExists(req[a].input.Code)
       THEN AdminReject(a, "itinerary/create", 409, "Itinerary code already exists.")
       ELSE Suspend(a, "itinerary/create:create", req[a].input, NULL)

\* ... Itinerary.create.  Code is UNIQUE, and both airports are foreign keys: the
\* INSERT of a code that is stored by now, or for an airport that is gone, is
\* rejected and the catch answers 500.
ItineraryCreateInsert(a) ==
    /\ req[a].pc = "itinerary/create:create"
    /\ IF \/ ItineraryCodeExists(req[a].input.Code)
          \/ req[a].input.OriginAirportID \notin DOMAIN airports
          \/ req[a].input.DestinationAirportID \notin DOMAIN airports
       THEN AdminFailed(a, "itinerary/create", "Server error")
       ELSE /\ itineraries' = Insert(itineraries, NextID(itineraries), req[a].input)
            /\ AdminWrote(a, "itinerary/create", 200)
            /\ UNCHANGED <<airports, airplanes, flights, reservations, created>>

\* PUT /itinerary/update up to the answer of Airport.findOne for originAirportId.
ItineraryUpdateOrigin(a, id, code, originAirportId, destinationAirportId, duration) ==
    /\ req[a].pc = "idle"
    /\ Validating(a, "itinerary/update:destination",
                  [id |-> id, row |-> ItineraryRow(trim(code), originAirportId,
                                                   destinationAirportId, duration)],
                  \/ ~itineraryValidationConstraints(code, originAirportId,
                                                     destinationAirportId, duration)
                  \/ originAirportId \notin DOMAIN airports)

\* ... up to the answer of Airport.findOne for destinationAirportId and the check
\* of validationResult.
ItineraryUpdateDestination(a) ==
    /\ req[a].pc = "itinerary/update:destination"
    /\ IF req[a].errors \/ req[a].input.row.DestinationAirportID \notin DOMAIN airports
       THEN AdminReject(a, "itinerary/update", 422, "validation")
       ELSE Suspend(a, "itinerary/update:findByPk", req[a].input, NULL)

\* ... up to the answer of Itinerary.findByPk.  itinerary.save() sends no query
\* when no assignment changed a value of the row found: the handler answers 200
\* without another call of the store.
ItineraryUpdateFindByPk(a) ==
    /\ req[a].pc = "itinerary/update:findByPk"
    /\ LET id == req[a].input.id
       IN  IF id \notin DOMAIN itineraries
           THEN AdminReject(a, "itinerary/update", 404, "Itinerary not found")
           ELSE IF Written(req[a].input.row, itineraries[id]) = {}
           THEN AdminReject(a, "itinerary/update", 200, "")
           ELSE Suspend(a, "itinerary/update:save", req[a].input, itineraries[id])

\* ... the UPDATE of itinerary.save().  An UPDATE that matches no row is no error;
\* one that gives the row the Code of another row, or an airport that is gone, is
\* rejected and the catch answers 500.
ItineraryUpdateSave(a) ==
    /\ req[a].pc = "itinerary/update:save"
    /\ LET id == req[a].input.id
           new == req[a].input.row
           written == Written(new, req[a].instance)
       IN  IF id \notin DOMAIN itineraries
           THEN AdminReject(a, "itinerary/update", 200, "")
           ELSE IF \/ /\ "Code" \in written
                      /\ \E i \in DOMAIN itineraries \ {id} : itineraries[i].Code = new.Code
                   \/ /\ "OriginAirportID" \in written
                      /\ new.OriginAirportID \notin DOMAIN airports
                   \/ /\ "DestinationAirportID" \in written
                      /\ new.DestinationAirportID \notin DOMAIN airports
           THEN AdminFailed(a, "itinerary/update", "Server error")
           ELSE /\ itineraries' = [itineraries EXCEPT ![id] =
                                        Saved(itineraries[id], new, written)]
                /\ AdminWrote(a, "itinerary/update", 200)
                /\ UNCHANGED <<airports, airplanes, flights, reservations, created>>

\* DELETE /itinerary/delete up to the answer of Itinerary.findByPk.
ItineraryDeleteFindByPk(a, id) ==
    /\ req[a].pc = "idle"
    /\ IF id <= 0
       THEN AdminReject(a, "itinerary/delete", 422,
                        "Invalid request body - missing or invalid itinerary ID")
       ELSE IF id \notin DOMAIN itineraries
       THEN AdminReject(a, "itinerary/delete", 404, "Itinerary not found")
       ELSE Suspend(a, "itinerary/delete:destroy", [id |-> id], NULL)

\* Mutant: the DELETE leaves the flights of the itinerary in the table.
ItineraryDeleteDestroyNoCascade(a) ==
    /\ req[a].pc = "itinerary/delete:destroy"
    /\ LET id == req[a].input.id
       IN  IF id \notin DOMAIN itineraries
           THEN AdminReject(a, "itinerary/delete", 200, "")
           ELSE /\ itineraries' = Remove(itineraries, {id})
                /\ AdminWrote(a, "itinerary/delete", 200)
                /\ UNCHANGED <<airports, airplanes, flights, reservations, created>>

\* ... itinerary.destroy(): the flights of the itinerary and their reservations go
\* with it (ON DELETE CASCADE).  A DELETE that matches no row is no error.
ItineraryDeleteDestroy(a) ==
    /\ req[a].pc = "itinerary/delete:destroy"
    /\ LET id == req[a].input.id
           F == FlightsOfItineraries({id})
           R == ReservationsOfFlights(F)
       IN  IF id \notin DOMAIN itineraries
           THEN AdminReject(a, "itinerary/delete", 200, "")
           ELSE /\ itineraries' = Remove(itineraries, {id})
                /\ flights' = Remove(flights, F)
                /\ reservations' = Remove(reservations, R)
                /\ created' = CreatedWithout(R)
                /\ AdminWrote(a, "itinerary/delete", 200)
                /\ UNCHANGED <<airports, airplanes>>

(***************************************************************************)
(* Airplane routes.                                                        *)
(***************************************************************************)
\* Mutant: capacity checked with isInt({ min: 0 }).
airplaneValidationAllowsZero(name, model, capacity) ==
    /\ notEmpty(name)
    /\ isAlphanumeric(trim(name))
    /\ notEmpty(model)
    /\ isAlphanumeric(trim(model))
    /\ isIntMin(capacity, 0)

airplaneValidationConstraints(name, model, capacity) ==
    /\ notEmpty(name)
    /\ isAlphanumeric(trim(name))
    /\ notEmpty(model)
    /\ isAlphanumeric(trim(model))
    /\ isIntMin(capacity, 1)

AirplaneNameExists(name) == \E a \in DOMAIN airplanes : airplanes[a].Name = name

AirplaneCreating == {"airplane/create:create"}

\* POST /airplane/create up to the answer of Airplane.findOne.
AirplaneCreateFindOne(a, ids, name, model, capacity) ==
    /\ req[a].pc = "idle"
    /\ IF ~airplaneValidationConstraints(name, model, capacity)
       THEN AdminReject(a, "airplane/create", 422, "validation")
       ELSE IF AirplaneNameExists(trim(name))
       THEN AdminReject(a, "airplane/create", 409, "Airplane name already exists.")
       ELSE /\ Vacant(airplanes, AirplaneCreating, ids)
            /\ Suspend(a, "airplane/create:create",
                       [Name |-> trim(name), Model |-> trim(model), Capacity |-> capacity],
                       NULL)

\* Mutant: the column Name of the table without its UNIQUE constraint.
AirplaneCreateInsertNoUnique(a) ==
    /\ req[a].pc = "airplane/create:create"
    /\ airplanes' = Insert(airplanes, NextID(airplanes), req[a].input)
    /\ AdminWrote(a, "airplane/create", 200)
    /\ UNCHANGED <<airports, itineraries, flights, reservations, created>>

\* ... Airplane.create.  Name is UNIQUE: the INSERT of a name that is stored by now
\* is rejected and the catch answers 500.
AirplaneCreateInsert(a) ==
    /\ req[a].pc = "airplane/create:create"
    /\ IF AirplaneNameExists(req[a].input.Name)
       THEN AdminFailed(a, "airplane/create", "Server error")
       ELSE /\ airplanes' = Insert(airplanes, NextID(airplanes), req[a].input)
            /\ AdminWrote(a, "airplane/create", 200)
            /\ UNCHANGED <<airports, itineraries, flights, reservations, created>>

\* DELETE /airplane/delete up to the answer of Airplane.findByPk.
AirplaneDeleteFindByPk(a, id) ==
    /\ req[a].pc = "idle"
    /\ IF id <= 0
       THEN AdminReject(a, "airplane/delete", 422,
                        "Invalid request body - missing or invalid airplane ID")
       ELSE IF id \notin DOMAIN airplanes
       THEN AdminReject(a, "airplane/delete", 404, "Airplane not found")
       ELSE Suspend(a, "airplane/delete:destroy", [id |-> id], NULL)

\* ... airplane.destroy(): Flights.AirplaneID REFERENCES Airplanes ON DELETE NO
\* ACTION, so the DELETE of an airplane that a flight is assigned fails and the
\* handler's catch answers 500.  A DELETE that matches no row is no error.
AirplaneDeleteDestroy(a) ==
    /\ req[a].pc = "airplane/delete:destroy"
    /\ LET id == req[a].input.id
       IN  IF id \notin DOMAIN airplanes
           THEN AdminReject(a, "airplane/delete", 200, "")
           ELSE IF FlightsOfAirplane(id) # {}
           THEN AdminReject(a, "airplane/delete", 500, "Server error")
           ELSE /\ airplanes' = Remove(airplanes, {id})
                /\ AdminWrote(a, "airplane/delete", 200)
                /\ UNCHANGED <<airports, itineraries, flights, reservations, created>>

(***************************************************************************)
(* Flight routes.                                                          *)
(***************************************************************************)
\* DepartureTime and ArrivalTime are JSON values of the body as bodyParser.json()
\* leaves them: a number or a string (json), with the text String(value) that
\* express-validator checks.  No sanitizer turns the strings into numbers.

SignChars == {"+", "-"}

\* The text without its sign.
Unsigned(s) == IF s # <<>> /\ Head(s) \in SignChars THEN Tail(s) ELSE s

\* Number(text) of the text of an integer.
toNumber(s) ==
    IF s # <<>> /\ Head(s) = "-" THEN 0 - parseInt(Tail(s)) ELSE parseInt(Unsigned(s))

\* isInt({ min }) on the text: allow_leading_zeroes is not set to false, so the
\* text is matched with /^[-+]?[0-9]+$/, and then text >= min, which compares
\* Number(text) with min.
isIntText(v, min) ==
    /\ Unsigned(v.text) # <<>>
    /\ \A i \in 1..Len(Unsigned(v.text)) : Unsigned(v.text)[i] \in DigitChars
    /\ toNumber(v.text) >= min

\* The code unit of a character of such a text.
CodeUnit(ch) == IF ch = "+" THEN 43 ELSE IF ch = "-" THEN 45 ELSE 48 + DigitValue(ch)

\* s < t on strings: by code units, a proper prefix first.
RECURSIVE StringLess(_, _)
StringLess(s, t) ==
    IF t = <<>> THEN FALSE
    ELSE IF s = <<>> THEN TRUE
    ELSE IF Head(s) = Head(t) THEN StringLess(Tail(s), Tail(t))
    ELSE CodeUnit(Head(s)) < CodeUnit(Head(t))

\* a <= b of JavaScript: two strings are compared as strings, any other pair as
\* numbers.
LessOrEqual(a, b) ==
    IF a.json = "string" /\ b.json = "string"
    THEN ~StringLess(b.text, a.text)
    ELSE toNumber(a.text) <= toNumber(b.text)

flightValidationConstraints(ItineraryID, DepartureTime, ArrivalTime, AirplaneID) ==
    /\ isIntMin(ItineraryID, 1)
    /\ isIntText(DepartureTime, 0)
    /\ isIntText(ArrivalTime, 0)
    /\ isIntMin(AirplaneID, 1)

\* The row keeps the JSON values it was given (Sequelize makes the dates of the
\* table of them; no handler reads them back but to answer them).

FlightRow(ItineraryID, DepartureTime, ArrivalTime, AirplaneID) ==
    [ItineraryID |-> ItineraryID, DepartureTime |-> DepartureTime,
     ArrivalTime |-> ArrivalTime, AirplaneID |-> AirplaneID]

\* DepartureTime and ArrivalTime are DATE columns.  set() makes a Date of a truthy
\* value before it compares it with the value read (DATE._sanitize), and leaves a
\* falsy one, the JSON number 0, as it is: DATE._isChanged then never finds it
\* equal to the Date read, so the column counts as changed.
Falsy(v) == v.json = "number" /\ toNumber(v.text) = 0

FlightChanged(new, old) ==
    Written(new, old) \cup {f \in {"DepartureTime", "ArrivalTime"} : Falsy(new[f])}

\* existingFlight.update(values) writes every column of values once one of them
\* counts as changed.
FlightUpdated(new, old) == IF FlightChanged(new, old) = {} THEN {} ELSE DOMAIN new

FlightCreating == {"flight/create:airplane", "flight/create:create"}

\* POST /flight/create up to the answer of Itinerary.findOne.
FlightCreateItinerary(a, ItineraryID, DepartureTime, ArrivalTime, AirplaneID) ==
    /\ req[a].pc = "idle"
    /\ IF ~flightValidationConstraints(ItineraryID, DepartureTime, ArrivalTime, AirplaneID)
       THEN AdminReject(a, "flight/create", 422, "validation")
       ELSE IF ItineraryID \notin DOMAIN itineraries
       THEN AdminReject(a, "flight/create", 409, "Invalid itinerary ID.")
       ELSE /\ Vacant(flights, FlightCreating, FlightIDs)
            /\ Suspend(a, "flight/create:airplane",
                       FlightRow(ItineraryID, DepartureTime, ArrivalTime, AirplaneID), NULL)

\* ... up to the answer of Airplane.findOne and the comparison of the times.
FlightCreateAirplane(a) ==
    /\ req[a].pc = "flight/create:airplane"
    /\ IF req[a].input.AirplaneID \notin DOMAIN airplanes
       THEN AdminReject(a, "flight/create", 409, "Invalid airplane ID.")
       ELSE IF LessOrEqual(req[a].input.ArrivalTime, req[a].input.DepartureTime)
       THEN AdminReject(a, "flight/create", 422, "Arrival time must be after departure time.")
       ELSE Suspend(a, "flight/create:create", req[a].input, NULL)

\* ... Flights.create.  The itinerary and the airplane are foreign keys: the INSERT
\* for one that is gone is rejected and the catch answers 500.
FlightCreateInsert(a) ==
    /\ req[a].pc = "flight/create:create"
    /\ IF \/ req[a].input.ItineraryID \notin DOMAIN itineraries
          \/ req[a].input.AirplaneID \notin DOMAIN airplanes
       THEN AdminFailed(a, "flight/create", "Server error")
       ELSE /\ flights' = Insert(flights, NextID(flights), req[a].input)
            /\ AdminWrote(a, "flight/create", 200)
            /\ UNCHANGED <<airports, itineraries, airplanes, reservations, created>>

\* PUT /flight/update up to the answer of Flights.findOne.
FlightUpdateFindOne(a, id, ItineraryID, DepartureTime, ArrivalTime, AirplaneID) ==
    /\ req[a].pc = "idle"
    /\ IF ~flightValidationConstraints(ItineraryID, DepartureTime, ArrivalTime, AirplaneID)
       THEN AdminReject(a, "flight/update", 422, "validation")
       ELSE IF id \notin DOMAIN flights
       THEN AdminReject(a, "flight/update", 404, "Flight with this ID does not exist.")
       ELSE Suspend(a, "flight/update:itinerary",
                    [id |-> id, row |-> FlightRow(ItineraryID, DepartureTime, ArrivalTime,
                                                  AirplaneID)],
                    flights[id])

\* ... up to the answer of Itinerary.findOne.
FlightUpdateItinerary(a) ==
    /\ req[a].pc = "flight/update:itinerary"
    /\ IF req[a].input.row.ItineraryID \notin DOMAIN itineraries
       THEN AdminReject(a, "flight/update", 409, "Invalid itinerary ID.")
       ELSE Suspend(a, "flight/update:airplane", req[a].input, req[a].instance)

\* ... up to the answer of Airplane.findOne and the comparison of the times.
\* existingFlight.update() sends no query when no value differs from the row that
\* Flights.findOne found: the handler answers 200 without another call of the store.
FlightUpdateAirplane(a) ==
    /\ req[a].pc = "flight/update:airplane"
    /\ IF req[a].input.row.AirplaneID \notin DOMAIN airplanes
       THEN AdminReject(a, "flight/update", 409, "Invalid airplane ID.")
       ELSE IF LessOrEqual(req[a].input.row.ArrivalTime, req[a].input.row.DepartureTime)
       THEN AdminReject(a, "flight/update", 422, "Arrival time must be after departure time.")
       ELSE IF FlightUpdated(req[a].input.row, req[a].instance) = {}
       THEN AdminReject(a, "flight/update", 200, "")
       ELSE Suspend(a, "flight/update:update", req[a].input, req[a].instance)

\* ... the UPDATE of existingFlight.update().  An UPDATE that matches no row is no
\* error; one that gives the row an itinerary or an airplane that is gone is
\* rejected and the catch answers 500.
FlightUpdateSave(a) ==
    /\ req[a].pc = "flight/update:update"
    /\ LET id == req[a].input.id
           new == req[a].input.row
           written == FlightUpdated(new, req[a].instance)
       IN  IF id \notin DOMAIN flights
           THEN AdminReject(a, "flight/update", 200, "")
           ELSE IF \/ "ItineraryID" \in written /\ new.ItineraryID \notin DOMAIN itineraries
                   \/ "AirplaneID" \in written /\ new.AirplaneID \notin DOMAIN airplanes
           THEN AdminFailed(a, "flight/update", "Server error")
           ELSE /\ flights' = [flights EXCEPT ![id] = Saved(flights[id], new, written)]
                /\ AdminWrote(a, "flight/update", 200)
                /\ UNCHANGED <<airports, itineraries, airplanes, reservations, created>>

\* DELETE /flight/delete up to the answer of Flights.findOne.
FlightDeleteFindOne(a, ID) ==
    /\ req[a].pc = "idle"
    /\ IF ID \notin DOMAIN flights
       THEN AdminReject(a, "flight/delete", 404, "Flight not found.")
       ELSE Suspend(a, "flight/delete:destroy", [ID |-> ID], NULL)

\* Mutant: the delete of a flight takes the reservations of every flight.
FlightDeleteDestroyEveryReservation(a) ==
    /\ req[a].pc = "flight/delete:destroy"
    /\ LET ID == req[a].input.ID
       IN  IF ID \notin DOMAIN flights
           THEN AdminReject(a, "flight/delete", 200, "")
           ELSE /\ flights' = Remove(flights, {ID})
                /\ reservations' = <<>>
                /\ created' = <<>>
                /\ AdminWrote(a, "flight/delete", 200)
                /\ UNCHANGED <<airports, itineraries, airplanes>>

\* ... Flights.destroy({ where: { ID } }): Reservation.FlightID REFERENCES Flights
\* ON DELETE CASCADE, so the reservations of the flight go with it.  A DELETE that
\* matches no row is no error.
FlightDeleteDestroy(a) ==
    /\ req[a].pc = "flight/delete:destroy"
    /\ LET ID == req[a].input.ID
           R == ReservationsOfFlights({ID})
       IN  IF ID \notin DOMAIN flights
           THEN AdminReject(a, "flight/delete", 200, "")
           ELSE /\ flights' = Remove(flights, {ID})
                /\ reservations' = Remove(reservations, R)
                /\ created' = CreatedWithout(R)
                /\ AdminWrote(a, "flight/delete", 200)
                /\ UNCHANGED <<airports, itineraries, airplanes>>

(***************************************************************************)
(* Reservation routes.                                                     *)
(***************************************************************************)
isLengthMin(s, min) == Len(s) >= min

reservationValidationConstraints(PassengerName, FlightID) ==
    /\ notEmpty(PassengerName)
    /\ isAlphanumeric(trim(PassengerName))
    /\ isLengthMin(trim(PassengerName), 2)
    /\ isIntMin(FlightID, 1)

Include(table, id, row(_)) == IF id \in DOMAIN table THEN row(id) ELSE NULL

AirportView(a) ==
    [ID |-> a, Name |-> airports[a].Name, Latitude |-> airports[a].Latitude,
     Longitude |-> airports[a].Longitude, Timezone |-> airports[a].Timezone]

ItineraryView(i) ==
    [ID |-> i, Code |-> itineraries[i].Code,
     OriginAirport |-> Include(airports, itineraries[i].OriginAirportID, AirportView),
     DestinationAirport |-> Include(airports, itineraries[i].DestinationAirportID, AirportView),
     DurationMinutes |-> itineraries[i].DurationMinutes]

AirplaneView(a) ==
    [ID |-> a, Name |-> airplanes[a].Name, Model |-> airplanes[a].Model,
     Capacity |-> airplanes[a].Capacity]

FlightView(f) ==
    [ID |-> f, DepartureTime |-> flights[f].DepartureTime,
     ArrivalTime |-> flights[f].ArrivalTime,
     Itinerary |-> Include(itineraries, flights[f].ItineraryID, ItineraryView),
     Airplane |-> Include(airplanes, flights[f].AirplaneID, AirplaneView)]

\* Mutant: the query without its where clause answers the first flight stored.
FlightsFindOneNoWhere(ID) ==
    IF DOMAIN flights = {} THEN NULL
    ELSE FlightView(CHOOSE f \in DOMAIN flights : \A g \in DOMAIN flights : f <= g)

\* Flights.findOne({ where: { ID }, include: [Itinerary [OriginAirport,
\* DestinationAirport], Airplane] }): one query, LEFT OUTER JOINs.
FlightsFindOne(ID) == Include(flights, ID, FlightView)

\* Reservation.count({ where: { FlightID } })
ReservationCount(FlightID) == Cardinality(ReservationsOfFlights({FlightID}))

\* The response assembly dereferences every level of existingFlight; a null level
\* throws a TypeError.
Hydrated(existingFlight) ==
    /\ existingFlight.Itinerary # NULL
    /\ existingFlight.Itinerary.OriginAirport # NULL
    /\ existingFlight.Itinerary.DestinationAirport # NULL
    /\ existingFlight.Airplane # NULL

\* A step of client c that leaves the store alone.
ClientRead(c, r) ==
    /\ req' = [req EXCEPT ![c] = r]
    /\ UNCHANGED <<airports, itineraries, airplanes, flights, reservations, created>>

\* A step of client c that wrote to the table of reservations.
ClientWrote(c, r) ==
    /\ req' = [d \in Requesters |-> IF d = c THEN r ELSE Overtaken(req[d])]
    /\ UNCHANGED <<airports, itineraries, airplanes, flights>>

\* Mutant: the capacity check one reservation early.
FlightFullOneEarly(reservationsCount, existingFlight) ==
    reservationsCount + 1 >= existingFlight.Airplane.Capacity

\* Mutant: the capacity check with > for >=.
FlightFullOffByOne(reservationsCount, existingFlight) ==
    reservationsCount > existingFlight.Airplane.Capacity

\* if (reservationsCount >= existingFlight.Airplane.Capacity)
FlightFull(reservationsCount, existingFlight) ==
    reservationsCount >= existingFlight.Airplane.Capacity

\* POST /reservation/create up to the answer of Flights.findOne.
BookLookup(c, PassengerName, FlightID) ==
    /\ req[c].pc = "idle"
    /\ LET begun == Begun("book", [PassengerName |-> trim(PassengerName),
                                       FlightID |-> FlightID])
           existingFlight == FlightsFindOne(FlightID)
       IN  IF ~reservationValidationConstraints(PassengerName, FlightID)
           THEN /\ last' = Answer(c, begun, "book", 422, "validation", NULL)
                /\ ClientRead(c, Idle)
           ELSE IF existingFlight = NULL
           THEN /\ last' = Answer(c, begun, "book", 409, "No such flight exists.", NULL)
                /\ ClientRead(c, Idle)
           ELSE /\ last' = NoResponse
                /\ ClientRead(c, [begun EXCEPT !.pc = "book:count",
                                               !.existingFlight = existingFlight])

\* Mutant: the capacity check is put off while another request is in flight.
BookCountWaits(c) ==
    /\ req[c].pc = "book:count"
    /\ \A d \in Clients \ {c} : req[d].pc = "idle"
    /\ LET reservationsCount == ReservationCount(req[c].input.FlightID)
           existingFlight == req[c].existingFlight
       IN  IF existingFlight.Airplane = NULL
           THEN /\ last' = Answer(c, req[c], "book", 500, "Failed to create reservation.", NULL)
                /\ ClientRead(c, Idle)
           ELSE IF FlightFull(reservationsCount, existingFlight)
           THEN /\ last' = Answer(c, req[c], "book", 409, "The flight is already full.", NULL)
                /\ ClientRead(c, Idle)
           ELSE /\ last' = NoResponse
                /\ ClientRead(c, [req[c] EXCEPT !.pc = "book:create"])

\* ... up to the answer of Reservation.count and the capacity check; a null
\* existingFlight.Airplane throws a TypeError, which ends in the catch: 500.
BookCount(c) ==
    /\ req[c].pc = "book:count"
    /\ LET reservationsCount == ReservationCount(req[c].input.FlightID)
           existingFlight == req[c].existingFlight
       IN  IF existingFlight.Airplane = NULL
           THEN /\ last' = Answer(c, req[c], "book", 500, "Failed to create reservation.", NULL)
                /\ ClientRead(c, Idle)
           ELSE IF FlightFull(reservationsCount, existingFlight)
           THEN /\ last' = Answer(c, req[c], "book", 409, "The flight is already full.", NULL)
                /\ ClientRead(c, Idle)
           ELSE /\ last' = NoResponse
                /\ ClientRead(c, [req[c] EXCEPT !.pc = "book:create"])

\* Mutant: the INSERT goes through although the flight is gone.
BookCreateNoForeignKey(c) ==
    /\ req[c].pc = "book:create"
    /\ LET input == req[c].input
           existingFlight == req[c].existingFlight
           ID == NextID(reservations)
       IN  /\ ID \in ReservationIDs
           /\ reservations' = Insert(reservations, ID,
                   [PassengerName |-> input.PassengerName, FlightID |-> input.FlightID])
           /\ created' = Append(created, ID)
           /\ ClientWrote(c, Idle)
           /\ last' = IF Hydrated(existingFlight)
                      THEN Answer(c, req[c], "book", 200, "",
                               [ID |-> NULL, PassengerName |-> input.PassengerName,
                                Flight |-> existingFlight])
                      ELSE Answer(c, req[c], "book", 500,
                               "Failed to create reservation.", NULL)

\* ... Reservation.create and the response.  The INSERT fails on the foreign key
\* when the flight is gone; the response assembly throws after the INSERT when a
\* level of existingFlight is null.  Both end in the catch: 500.  The model
\* Reservation has no autoIncrement attribute (ID is a plain primary key), so the
\* rowid that SQLite gave the row is not written to the instance: reservation.ID
\* is the null it was built with.
BookCreate(c) ==
    /\ req[c].pc = "book:create"
    /\ LET input == req[c].input
           existingFlight == req[c].existingFlight
           ID == NextID(reservations)
       IN  IF input.FlightID \notin DOMAIN flights
           THEN /\ last' = Answer(c, req[c], "book", 500, "Failed to create reservation.", NULL)
                /\ ClientRead(c, Idle)
           ELSE /\ ID \in ReservationIDs
                /\ reservations' = Insert(reservations, ID,
                        [PassengerName |-> input.PassengerName, FlightID |-> input.FlightID])
                /\ created' = Append(created, ID)
                /\ ClientWrote(c, Idle)
                /\ last' = IF Hydrated(existingFlight)
                           THEN Answer(c, req[c], "book", 200, "",
                                    [ID |-> NULL, PassengerName |-> input.PassengerName,
                                     Flight |-> existingFlight])
                           ELSE Answer(c, req[c], "book", 500,
                                    "Failed to create reservation.", NULL)

\* Mutant: the number of fields of the body is not checked.
CancelFindOneAnyFields(c, body) ==
    /\ req[c].pc = "idle"
    /\ LET begun == Begun("cancel", body)
       IN  IF body.ID = 0
           THEN /\ last' = Answer(c, begun, "cancel", 400, "ID is required in the body.", NULL)
                /\ ClientRead(c, Idle)
           ELSE IF body.ID \notin DOMAIN reservations
           THEN /\ last' = Answer(c, begun, "cancel", 404, "Reservation not found.", NULL)
                /\ ClientRead(c, Idle)
           ELSE /\ last' = NoResponse
                /\ ClientRead(c, [begun EXCEPT !.pc = "cancel:destroy",
                        !.reservation = [ID |-> body.ID,
                                         PassengerName |-> reservations[body.ID].PassengerName,
                                         FlightID |-> reservations[body.ID].FlightID]])

\* DELETE /reservation/delete up to the answer of Reservation.findOne.  body.ID = 0
\* stands for a body without ID (or with a falsy one); body.keys is
\* Object.keys(req.body).length.
CancelFindOne(c, body) ==
    /\ req[c].pc = "idle"
    /\ LET begun == Begun("cancel", body)
       IN  IF body.ID = 0
           THEN /\ last' = Answer(c, begun, "cancel", 400, "ID is required in the body.", NULL)
                /\ ClientRead(c, Idle)
           ELSE IF body.keys # 1
           THEN /\ last' = Answer(c, begun, "cancel", 400,
                                  "Only the ID should be provided in the body.", NULL)
                /\ ClientRead(c, Idle)
           ELSE IF body.ID \notin DOMAIN reservations
           THEN /\ last' = Answer(c, begun, "cancel", 404, "Reservation not found.", NULL)
                /\ ClientRead(c, Idle)
           ELSE /\ last' = NoResponse
                /\ ClientRead(c, [begun EXCEPT !.pc = "cancel:destroy",
                        !.reservation = [ID |-> body.ID,
                                         PassengerName |-> reservations[body.ID].PassengerName,
                                         FlightID |-> reservations[body.ID].FlightID]])

\* For the record in last: the flight of row ID if that flight has as many
\* reservations as seats, so that the DELETE of the row gives back its last seat.
Freed(ID) ==
    IF ID \notin DOMAIN reservations THEN 0
    ELSE LET f == reservations[ID].FlightID
         IN  IF /\ f \in DOMAIN flights
                /\ flights[f].AirplaneID \in DOMAIN airplanes
                /\ ReservationCount(f) = airplanes[flights[f].AirplaneID].Capacity
             THEN f ELSE 0

\* Mutant: the DELETE is keyed on the flight of the reservation found.
CancelDestroyByFlight(c) ==
    /\ req[c].pc = "cancel:destroy"
    /\ LET R == ReservationsOfFlights({req[c].reservation.FlightID})
       IN  /\ last' = Answer(c, req[c], "cancel", 200, "", NULL)
           /\ reservations' = Remove(reservations, R)
           /\ created' = CreatedWithout(R)
           /\ ClientWrote(c, Idle)

\* Mutant: the answer is sent and the row is left in the table.
CancelDestroyKeepsRow(c) ==
    /\ req[c].pc = "cancel:destroy"
    /\ last' = [Answer(c, req[c], "cancel", 200, "", NULL)
                    EXCEPT !.freed = Freed(req[c].reservation.ID)]
    /\ ClientRead(c, Idle)

\* ... reservation.destroy(): DELETE FROM Reservations WHERE ID = the ID found; a
\* DELETE that matches no row is no error.
CancelDestroy(c) ==
    /\ req[c].pc = "cancel:destroy"
    /\ LET ID == req[c].reservation.ID
       IN  /\ last' = [Answer(c, req[c], "cancel", 200, "", NULL)
                            EXCEPT !.freed = Freed(ID)]
           /\ IF ID \in DOMAIN reservations
              THEN /\ reservations' = Remove(reservations, {ID})
                   /\ created' = CreatedWithout({ID})
                   /\ ClientWrote(c, Idle)
              ELSE ClientRead(c, Idle)

RECURSIVE Ascending(_)
Ascending(S) ==
    IF S = {} THEN <<>>
    ELSE LET m == CHOOSE x \in S : \A y \in S : x <= y
         IN  <<m>> \o Ascending(S \ {m})

\* Reservation.findAll({ where: { FlightID } }): no ORDER BY, SQLite scans the
\* table in rowid order.
ReservationFindAll(FlightID) == Ascending(ReservationsOfFlights({FlightID}))

\* Mutant: an unknown flight is answered an empty list.
ListLookupEmptyForUnknown(c, ID) ==
    /\ req[c].pc = "idle"
    /\ LET begun == Begun("list", [FlightID |-> ID])
           existingFlight == FlightsFindOne(ID)
       IN  IF ~isIntMin(ID, 1)
           THEN /\ last' = Answer(c, begun, "list", 422, "validation", NULL)
                /\ ClientRead(c, Idle)
           ELSE IF existingFlight = NULL
           THEN /\ last' = Answer(c, begun, "list", 200, "", <<>>)
                /\ ClientRead(c, Idle)
           ELSE /\ last' = NoResponse
                /\ ClientRead(c, [begun EXCEPT !.pc = "list:findAll",
                                               !.existingFlight = existingFlight])

\* GET /reservation/flight/:ID up to the answer of Flights.findOne.
ListLookup(c, ID) ==
    /\ req[c].pc = "idle"
    /\ LET begun == Begun("list", [FlightID |-> ID])
           existingFlight == FlightsFindOne(ID)
       IN  IF ~isIntMin(ID, 1)
           THEN /\ last' = Answer(c, begun, "list", 422, "validation", NULL)
                /\ ClientRead(c, Idle)
           ELSE IF existingFlight = NULL
           THEN /\ last' = Answer(c, begun, "list", 409, "No such flight exists.", NULL)
                /\ ClientRead(c, Idle)
           ELSE /\ last' = NoResponse
                /\ ClientRead(c, [begun EXCEPT !.pc = "list:findAll",
                                               !.existingFlight = existingFlight])

\* ... Reservation.findAll and the response: every row is given the flight context
\* found by the lookup; with a null level in it the mapping of a row throws.
ListFindAll(c) ==
    /\ req[c].pc = "list:findAll"
    /\ LET existingFlight == req[c].existingFlight
           rows == ReservationFindAll(existingFlight.ID)
           item(r) == [ID |-> r, PassengerName |-> reservations[r].PassengerName,
                       Flight |-> existingFlight]
       IN  /\ last' = IF rows # <<>> /\ ~Hydrated(existingFlight)
                      THEN Answer(c, req[c], "list", 500, "Internal server error.", NULL)
                      ELSE Answer(c, req[c], "list", 200, "",
                                  [i \in 1..Len(rows) |-> item(rows[i])])
           /\ ClientRead(c, Idle)

(***************************************************************************)
(* The system.                                                             *)
(***************************************************************************)
Init ==
    /\ airports = <<>>
    /\ itineraries = <<>>
    /\ airplanes = <<>>
    /\ flights = <<>>
    /\ reservations = <<>>
    /\ created = <<>>
    /\ req = [c \in Requesters |-> Idle]
    /\ last = NoResponse

CancelBodies == [ID : {0} \cup ReservationIDs, keys : {1, 2}]

\* The steps of the routes, by route, for administrator a.
AirportCreation(a, ids, names) ==
    \/ \E n \in names, la \in Latitudes, lo \in Longitudes, tz \in Timezones :
            AirportCreateValidate(a, ids, n, la, lo, tz)
    \/ AirportCreateFindOne(a)
    \/ AirportCreateInsert(a)

AirportChange(a, ids, names) ==
    \/ \E id \in ids, n \in names, la \in Latitudes, lo \in Longitudes,
          tz \in Timezones : AirportUpdateValidate(a, id, n, la, lo, tz)
    \/ AirportUpdateFindByPk(a)
    \/ AirportUpdateSave(a)

AirportRemoval(a, ids) ==
    \/ \E id \in ids : AirportDeleteFindByPk(a, id)
    \/ AirportDeleteDestroy(a)

ItineraryCreation(a, ids, codes) ==
    \/ \E code \in codes, o \in AirportIDs, d \in AirportIDs, du \in Durations :
            ItineraryCreateOrigin(a, ids, code, o, d, du)
    \/ ItineraryCreateDestination(a)
    \/ ItineraryCreateFindOne(a)
    \/ ItineraryCreateInsert(a)

ItineraryChange(a, ids, codes) ==
    \/ \E id \in ids, code \in codes, o \in AirportIDs, d \in AirportIDs,
          du \in Durations : ItineraryUpdateOrigin(a, id, code, o, d, du)
    \/ ItineraryUpdateDestination(a)
    \/ ItineraryUpdateFindByPk(a)
    \/ ItineraryUpdateSave(a)

ItineraryRemoval(a, ids) ==
    \/ \E id \in ids : ItineraryDeleteFindByPk(a, id)
    \/ ItineraryDeleteDestroy(a)

AirplaneCreation(a, names, capacities) ==
    \/ \E n \in names, m \in AirplaneModels, cap \in capacities :
            AirplaneCreateFindOne(a, AirplaneIDs, n, m, cap)
    \/ AirplaneCreateInsert(a)

AirplaneRemoval(a) ==
    \/ \E id \in AirplaneIDs : AirplaneDeleteFindByPk(a, id)
    \/ AirplaneDeleteDestroy(a)

FlightCreation(a, times) ==
    \/ \E i \in ItineraryIDs, dep \in times, arr \in times, p \in AirplaneIDs :
            FlightCreateItinerary(a, i, dep, arr, p)
    \/ FlightCreateAirplane(a)
    \/ FlightCreateInsert(a)

FlightChange(a, planes, departures, arrivals) ==
    \/ \E id \in FlightIDs, i \in ItineraryIDs, dep \in departures, arr \in arrivals,
          p \in planes : FlightUpdateFindOne(a, id, i, dep, arr, p)
    \/ FlightUpdateItinerary(a)
    \/ FlightUpdateAirplane(a)
    \/ FlightUpdateSave(a)

FlightRemoval(a) ==
    \/ \E id \in FlightIDs : FlightDeleteFindOne(a, id)
    \/ FlightDeleteDestroy(a)

\* The administrative routes that change what the reservation routes read, for
\* administrator a.  With one itinerary code and one pair of airports, an update of
\* an itinerary finds nothing to write.  An update of a flight is sent for the one
\* airplane that is ever stored, with the one pair of times that the comparison
\* of the times lets through (the UPDATE that its DepartureTime 0 brings about
\* writes the values that are stored).
Administration(a) ==
    \/ AirportCreation(a, AirportIDs, AirportNames)
    \/ AirportChange(a, AirportIDs, AirportNames)
    \/ AirportRemoval(a, AirportIDs)
    \/ ItineraryCreation(a, ItineraryIDs, ItineraryCodes)
    \/ ItineraryRemoval(a, ItineraryIDs)
    \/ AirplaneCreation(a, AirplaneNames, Capacities)
    \/ AirplaneRemoval(a)
    \/ FlightCreation(a, Times)
    \/ FlightChange(a, {1}, {t \in Times : t.text = <<"0">>},
                    {t \in Times : t.text = <<"1">>})
    \/ FlightRemoval(a)

Book(c, names) ==
    \/ \E p \in names, f \in FlightIDs : BookLookup(c, p, f)
    \/ BookCount(c)
    \/ BookCreate(c)

Cancel(c) ==
    \/ \E body \in CancelBodies : CancelFindOne(c, body)
    \/ CancelDestroy(c)

List(c) ==
    \/ \E f \in FlightIDs : ListLookup(c, f)
    \/ ListFindAll(c)

\* The requests of the administrator and of the client interleave at every await.
Next ==
    \/ Administration("a1")
    \/ Book("c1", PassengerNames)
    \/ Cancel("c1")
    \/ List("c1")

Spec == Init /\ [][Next]_vars

\* The create routes alone: a schedule that is built up and never changed.
BuildUp(a) ==
    \/ AirportCreation(a, AirportIDs, AirportNames)
    \/ ItineraryCreation(a, ItineraryIDs, ItineraryCodes)
    \/ AirplaneCreation(a, AirplaneNames, Capacities)
    \/ FlightCreation(a, Times)

NextConcurrent ==
    \/ BuildUp("a1")
    \/ \E c \in Clients : Book(c, {<<"A", "A">>})
    \/ \E c \in Clients : Cancel(c)

SpecConcurrent == Init /\ [][NextConcurrent]_vars

\* Two airplanes, flights that are created, moved to another airplane and given
\* other times, and one client that books and cancels.
FleetSchedule(a) ==
    \/ AirportCreation(a, AirportIDs, {<<"A">>})
    \/ ItineraryCreation(a, ItineraryIDs, ItineraryCodes)
    \/ \E p \in Fleet, m \in AirplaneModels :
            AirplaneCreateFindOne(a, AirplaneIDs, p.Name, m, p.Capacity)
    \/ AirplaneCreateInsert(a)
    \/ AirplaneRemoval(a)
    \/ FlightCreation(a, FleetTimes)
    \/ FlightChange(a, AirplaneIDs, FleetTimes, FleetTimes)

NextFleet ==
    \/ FleetSchedule("a1")
    \/ Book("c1", {<<"A", "A">>})
    \/ Cancel("c1")

SpecFleet == Init /\ [][NextFleet]_vars

(***************************************************************************)
(* Two administrators.                                                     *)
(***************************************************************************)
\* The requests of two administrators for airports, itineraries and airplanes
\* interleave at every await.
NextDirectory ==
    \/ \E a \in Administrators : AirportCreation(a, DirectoryIDs, AirportNames)
    \/ \E a \in Administrators : AirportChange(a, DirectoryIDs, AirportNames)
    \/ \E a \in Administrators : AirportRemoval(a, DirectoryIDs)
    \/ \E a \in Administrators : ItineraryCreation(a, DirectoryIDs, DirectoryCodes)
    \/ \E a \in Administrators : ItineraryChange(a, DirectoryIDs, DirectoryCodes)
    \/ \E a \in Administrators : ItineraryRemoval(a, DirectoryIDs)
    \/ \E a \in Administrators, n \in Fleet, m \in AirplaneModels :
            AirplaneCreateFindOne(a, DirectoryIDs, n.Name, m, n.Capacity)
    \/ \E a \in Administrators : AirplaneCreateInsert(a)
    \/ \E a \in Administrators : AirplaneRemoval(a)

SpecDirectory == Init /\ [][NextDirectory]_vars

(***************************************************************************)
(* The reservation routes under fair scheduling.                           *)
(***************************************************************************)
\* One flight of one seat or of two that is created and deleted under the requests
\* of the clients.
FairSchedule(a) ==
    \/ AirportCreation(a, AirportIDs, {<<"A">>})
    \/ ItineraryCreation(a, ItineraryIDs, ItineraryCodes)
    \/ \E p \in Fleet, m \in AirplaneModels :
            airplanes = <<>> /\ AirplaneCreateFindOne(a, AirplaneIDs, p.Name, m, p.Capacity)
    \/ AirplaneCreateInsert(a)
    \/ \E i \in ItineraryIDs, dep \in Times, arr \in Times, p \in AirplaneIDs :
            flights = <<>> /\ dep.text = <<"0">> /\ arr.text = <<"1">>
                /\ FlightCreateItinerary(a, i, dep, arr, p)
    \/ FlightCreateAirplane(a)
    \/ FlightCreateInsert(a)
    \/ FlightRemoval(a)

\* The book requests that are in flight.
Booking == {c \in Clients : req[c].pc \in {"book:count", "book:create"}}

\* The bound of the model on the IDs of reservations leaves room for one more book
\* request: each request in flight inserts one row at most.
Room == NextID(reservations) + Cardinality(Booking) \in ReservationIDs

\* The handler of client c is resumed after the await it is suspended at.
Resume(c) ==
    \/ BookCount(c)
    \/ BookCreate(c)
    \/ CancelDestroy(c)
    \/ ListFindAll(c)

NextFair ==
    \/ FairSchedule("a1")
    \/ \E c \in Clients : Room /\ BookLookup(c, <<"A", "A">>, 1)
    \/ \E c \in Clients, body \in CancelBodies : body.keys = 1 /\ CancelFindOne(c, body)
    \/ \E c \in Clients : ListLookup(c, 1)
    \/ \E c \in Clients : Resume(c)

\* The store answers every query, and the event loop then resumes the handler that
\* awaits the answer.
SpecFair == Init /\ [][NextFair]_vars /\ \A c \in Clients : WF_vars(Resume(c))

(***************************************************************************)
(* Properties.                                                             *)
(***************************************************************************)
Capacity(f) == airplanes[flights[f].AirplaneID].Capacity

Assigned(f) == f \in DOMAIN flights /\ flights[f].AirplaneID \in DOMAIN airplanes

NoSuchFlight == "No such flight exists."
FlightIsFull == "The flight is already full."

\* C1: in every reachable state, every stored flight has at most as many
\* reservations as its airplane has seats, whatever the interleaving of the steps
\* (resolve flight, count reservations, insert reservation) of concurrent book
\* requests and of cancel requests.
CapacityInvariant ==
    \A f \in DOMAIN flights : Assigned(f) => ReservationCount(f) <= Capacity(f)

\* C2: of the book requests that run concurrently for one flight, no more are
\* answered 200 than seats remained (a booking answered 200 leaves the flight with
\* at most as many reservations as seats), and one answered FlightFull leaves the
\* flight with no seat.
ExactAdmission ==
    LET f == last.input.FlightID
    IN  (last.op = "book" /\ last.status \in {200, 409} /\ Assigned(f)) =>
            /\ last.status = 200 => ReservationCount(f) <= Capacity(f)
            /\ last.error = FlightIsFull => ReservationCount(f) >= Capacity(f)

\* C3: a well-formed book request that runs without another request writing in
\* between, for a stored flight whose airplane is stored, with n reservations on
\* the flight and cap seats: if n < cap it is answered 200 and adds exactly one
\* reservation, for that passenger and flight; otherwise (n = cap is the boundary)
\* it is answered FlightFull and adds none.
AdmitIffSeatsRemain ==
    [][LET f == last'.input.FlightID
       IN  (/\ last'.op = "book"
            /\ last'.clean
            /\ last'.status # 422
            /\ Assigned(f)) =>
                IF ReservationCount(f) < Capacity(f)
                THEN /\ last'.status = 200
                     /\ \E id \in DOMAIN reservations' \ DOMAIN reservations :
                            reservations' = Insert(reservations, id,
                                [PassengerName |-> last'.input.PassengerName,
                                 FlightID |-> f])
                ELSE /\ last'.status = 409
                     /\ last'.error = FlightIsFull
                     /\ reservations' = reservations]_vars

\* C3 witness: a book request that ran alone was answered FlightFull on a flight with
\* exactly as many reservations as seats.
RejectedAtBoundary ==
    /\ last.op = "book"
    /\ last.clean
    /\ last.error = FlightIsFull
    /\ Assigned(last.input.FlightID)
    /\ ReservationCount(last.input.FlightID) = Capacity(last.input.FlightID)

\* The step in which client c's book request begins: it is answered at once or
\* goes on to count the reservations.
BookBegins(c) ==
    /\ req[c].pc = "idle"
    /\ \/ req'[c].pc = "book:count"
       \/ last'.op = "book" /\ last'.client = c

BookInput(c) == IF req'[c].pc = "book:count" THEN req'[c].input ELSE last'.input

\* C4: a well-formed book request whose FlightID is the ID of no stored flight is
\* answered 409 'No such flight exists.' at once, and the store is left as it was.
NoSuchFlightRejected ==
    [][\A c \in Clients :
          (BookBegins(c) /\ last'.status # 422 /\ BookInput(c).FlightID \notin DOMAIN flights) =>
                /\ last'.op = "book"
                /\ last'.status = 409
                /\ last'.error = NoSuchFlight
                /\ store' = store]_vars

\* C4 witness: a book request was answered NoSuchFlight while another flight is stored.
UnknownFlightRejected ==
    /\ last.op = "book"
    /\ last.status = 409
    /\ last.error = NoSuchFlight
    /\ last.input.FlightID \notin DOMAIN flights
    /\ DOMAIN flights # {}

\* C5: every stored airplane has at least one seat and every stored flight is
\* assigned a stored airplane, so a well-formed book request that runs alone for a
\* stored flight is turned down only if the flight has reservations: with none it
\* is admitted.
ZeroReservationsAdmitted ==
    /\ \A a \in DOMAIN airplanes : airplanes[a].Capacity >= 1
    /\ \A f \in DOMAIN flights : Assigned(f)
    /\ LET f == last.input.FlightID
       IN  (/\ last.op = "book"
            /\ last.clean
            /\ last.status \notin {200, 422}
            /\ f \in DOMAIN flights) => ReservationCount(f) > 0

\* C5 witness: the first reservation of a flight has been admitted.
FirstReservationAdmitted ==
    /\ last.op = "book"
    /\ last.status = 200
    /\ last.clean
    /\ Assigned(last.input.FlightID)
    /\ ReservationCount(last.input.FlightID) = 1

\* C6: a well-formed cancel request that runs without another request writing in
\* between: if a reservation with its ID is stored, it is answered 200, exactly that
\* reservation is removed and every other row of every table is left as it was; if
\* none is stored, it is answered 404 and the store is left as it was.
CancelRemovesExactlyOne ==
    [][LET id == last'.input.ID
       IN  (last'.op = "cancel" /\ last'.clean /\ last'.status # 400) =>
                IF id \in DOMAIN reservations
                THEN /\ last'.status = 200
                     /\ reservations' = Remove(reservations, {id})
                     /\ UNCHANGED <<airports, itineraries, airplanes, flights>>
                ELSE /\ last'.status = 404
                     /\ store' = store]_vars

\* C6 witness: a cancel was answered 200, its reservation is gone and another
\* reservation is still stored.
CancelledAmongOthers ==
    /\ last.op = "cancel"
    /\ last.status = 200
    /\ last.clean
    /\ last.input.ID \notin DOMAIN reservations
    /\ DOMAIN reservations # {}

\* C7: a cancel request for the ID of the cancel that was answered 200 just before it
\* finds no reservation and is answered 404.
RepeatedCancelNotFound ==
    /\ \A c \in Clients : req[c].pc = "cancel:destroy" => ~req[c].follows
    /\ (last.op = "cancel" /\ last.follows /\ last.status # 400) => last.status = 404

\* C7 witness: the second of two cancels of one ID has been answered 404.
SecondCancelNotFound ==
    /\ last.op = "cancel"
    /\ last.follows
    /\ last.status = 404

\* C8: a well-formed book request that runs alone, right after a cancel took a
\* reservation from a flight that had as many reservations as seats, for that
\* flight: it is answered 200 and the flight has again as many reservations as
\* seats (exactly one on a flight of one seat).
RebookAdmitted ==
    LET f == last.input.FlightID
    IN  (last.op = "book" /\ last.follows /\ last.clean /\ last.status # 422) =>
            /\ last.status = 200
            /\ Assigned(f)
            /\ ReservationCount(f) = Capacity(f)

\* C8 witness: book, cancel, book on a flight of one seat: the second booking was
\* answered 200 and the flight has exactly one reservation.
RebookedSingleSeat ==
    /\ last.op = "book"
    /\ last.follows
    /\ last.status = 200
    /\ Assigned(last.input.FlightID)
    /\ Capacity(last.input.FlightID) = 1
    /\ ReservationCount(last.input.FlightID) = 1

\* C9: a list answered 200 holds exactly the stored reservations of the flight, each
\* with its ID and PassengerName, in the order in which they were created.
ListInCreationOrder ==
    (last.op = "list" /\ last.status = 200) =>
        LET f == last.input.FlightID
            ids == SelectSeq(created, LAMBDA r : reservations[r].FlightID = f)
        IN  /\ Len(last.body) = Len(ids)
            /\ \A i \in 1..Len(ids) :
                    /\ last.body[i].ID = ids[i]
                    /\ last.body[i].PassengerName = reservations[ids[i]].PassengerName

\* C9 witness: the list of a flight of two seats holds passenger AA, then passenger BB.
ListedBothInOrder ==
    /\ last.op = "list"
    /\ last.status = 200
    /\ Len(last.body) = 2
    /\ last.body[1].PassengerName = <<"A", "A">>
    /\ last.body[2].PassengerName = <<"B", "B">>
    /\ Assigned(last.input.FlightID)
    /\ Capacity(last.input.FlightID) = 2

\* The reservations a step takes away and those it adds.
Gone == DOMAIN reservations \ DOMAIN reservations'
New  == DOMAIN reservations' \ DOMAIN reservations

\* A reservation that stays keeps its PassengerName and FlightID, and a step adds
\* reservations only as a book answered 200: one row, for its passenger and flight.
StaysAndBooked ==
    /\ \A r \in DOMAIN reservations \cap DOMAIN reservations' :
            reservations'[r] = reservations[r]
    /\ New # {} =>
            /\ last'.op = "book"
            /\ last'.status = 200
            /\ \E id \in New :
                    /\ New = {id}
                    /\ reservations'[id] = [PassengerName |-> last'.input.PassengerName,
                                            FlightID |-> last'.input.FlightID]

ByCancel == last'.op = "cancel" /\ last'.status = 200 /\ Gone = {last'.input.ID}

\* C10 as claimed: a reservation comes into being only by a book answered 200, keeps
\* its PassengerName and FlightID while it is stored, and goes only by a cancel;
\* every other request leaves the set of reservations as it was.
ReservationLifeCycle ==
    [][StaysAndBooked /\ (Gone # {} => ByCancel)]_vars

\* C10 as amended: ... and goes only by a cancel or with its flight, when the flight
\* is deleted (by the delete of the flight, of its itinerary or of an airport of that
\* itinerary); then exactly the reservations of the deleted flights go.
ReservationLifeCycleWithCascade ==
    [][/\ StaysAndBooked
       /\ Gone # {} =>
            \/ ByCancel
            \/ /\ DOMAIN flights' \subseteq DOMAIN flights
               /\ Gone = ReservationsOfFlights(DOMAIN flights \ DOMAIN flights')]_vars

\* C10 witness: the reservation that a cancel in flight has found is gone, and so is
\* its flight: the delete of the flight took it.
GoneWithItsFlight ==
    \E c \in Clients :
        /\ req[c].pc = "cancel:destroy"
        /\ req[c].reservation.ID \notin DOMAIN reservations
        /\ req[c].reservation.FlightID \notin DOMAIN flights

\* C11: every well-formed book request, in any reachable state of the store (also
\* after, or during, the delete of an airplane, itinerary or airport that a flight
\* refers to), ends in a reservation record (200), in NoSuchFlight (409) or in
\* FlightFull (409), never in a generic server error.
BookEndsTyped ==
    (last.op = "book" /\ last.status # 422) =>
        \/ last.status = 200 /\ last.body # NULL
        \/ last.status = 409 /\ last.error \in {NoSuchFlight, FlightIsFull}

\* C12: in every reachable state the FlightID of every stored reservation is the ID
\* of a stored flight.
ReservationsReferToFlights ==
    \A r \in DOMAIN reservations : reservations[r].FlightID \in DOMAIN flights

\* C12 witness: the flight of a book request was deleted between the lookup and the
\* INSERT of the request; the INSERT failed and the request was answered 500, while
\* another flight has a reservation.
FlightDeletedBeforeInsert ==
    /\ last.op = "book"
    /\ last.status = 500
    /\ ~last.clean
    /\ last.input.FlightID \notin DOMAIN flights
    /\ reservations # <<>>

\* C13: after any sequence of flight update, flight create, airplane create and
\* delete, book and cancel, every stored flight is assigned a stored airplane and
\* has at most as many reservations as that airplane has seats.
CapacityAfterAdministration ==
    \A f \in DOMAIN flights :
        /\ Assigned(f)
        /\ Cardinality(ReservationsOfFlights({f})) <= airplanes[flights[f].AirplaneID].Capacity

\* C14: the flight, itinerary, airports and airplane in the response of a booking
\* answered 200 are those that are stored when the reservation is inserted, also
\* when a flight update ran between the flight lookup and the INSERT of the request.
ResponseShowsStoredFlight ==
    (last.op = "book" /\ last.status = 200) =>
        last.body.Flight = FlightsFindOne(last.input.FlightID)

\* C15: a flight is created or changed only by a request whose ItineraryID and
\* AirplaneID are the IDs of stored rows and whose ArrivalTime is greater than its
\* DepartureTime, so every stored flight has a stored itinerary, a stored airplane
\* and an ArrivalTime greater than its DepartureTime.
FlightsWellFormed ==
    \A f \in DOMAIN flights :
        /\ flights[f].ItineraryID \in DOMAIN itineraries
        /\ flights[f].AirplaneID \in DOMAIN airplanes
        /\ toNumber(flights[f].ArrivalTime.text) > toNumber(flights[f].DepartureTime.text)

\* The step in which client c's list request begins, and a step of it.
ListBegins(c) ==
    /\ req[c].pc = "idle"
    /\ \/ req'[c].pc = "list:findAll"
       \/ last'.op = "list" /\ last'.client = c

ListStep(c) == ListBegins(c) \/ (req[c].pc = "list:findAll" /\ req'[c].pc = "idle")

ListInput(c) == IF req'[c].pc = "list:findAll" THEN req'[c].input ELSE last'.input

\* C16: a list request whose flight ID is the ID of no stored flight is answered 409
\* 'No such flight exists.', and every step of a list request, whatever its
\* outcome, leaves the store as it was.
ListReadsOnly ==
    [][\A c \in Clients :
          /\ (ListBegins(c) /\ ListInput(c).FlightID \notin DOMAIN flights) =>
                /\ last'.op = "list"
                /\ last'.status = 409
                /\ last'.error = NoSuchFlight
          /\ ListStep(c) => store' = store /\ created' = created]_vars

\* C16 witness: a list request for an unknown flight was answered NoSuchFlight while
\* the store holds reservations of another flight.
UnknownFlightNotListed ==
    /\ last.op = "list"
    /\ last.status = 409
    /\ last.error = NoSuchFlight
    /\ last.input.FlightID \notin DOMAIN flights
    /\ reservations # <<>>

\* The step in which client c's cancel request begins.
CancelBegins(c) ==
    /\ req[c].pc = "idle"
    /\ \/ req'[c].pc = "cancel:destroy"
       \/ last'.op = "cancel" /\ last'.client = c

CancelInput(c) == IF req'[c].pc = "cancel:destroy" THEN req'[c].input ELSE last'.input

\* C17: a cancel request whose body has no ID, or has a field besides ID, is
\* answered 400 at once and the store is left as it was, also when the ID it
\* carries is the ID of a stored reservation.
MalformedCancelRejected ==
    [][\A c \in Clients :
          (CancelBegins(c) /\ (CancelInput(c).ID = 0 \/ CancelInput(c).keys # 1)) =>
                /\ last'.op = "cancel"
                /\ last'.status = 400
                /\ store' = store]_vars

\* C17 witness: a cancel request with a second field was answered 400 and the
\* reservation whose ID it carries is still stored.
ExtraFieldRejected ==
    /\ last.op = "cancel"
    /\ last.status = 400
    /\ last.input.keys = 2
    /\ last.input.ID \in DOMAIN reservations

\* C18: a reservation goes from booked to nonexistent at most once: every cancel
\* answered 200 has taken its reservation from the table in that step, so of the
\* cancel requests for one reservation, overlapping or not, one is answered 200 and
\* the others 404.
CancelledAtMostOnce ==
    [][(last'.op = "cancel" /\ last'.status = 200) =>
            /\ last'.input.ID \in DOMAIN reservations
            /\ last'.input.ID \notin DOMAIN reservations']_vars

\* A step of client c's book request.
BookStep(c) ==
    \/ BookBegins(c)
    \/ req[c].pc = "book:count" /\ req'[c].pc \in {"book:create", "idle"}
    \/ req[c].pc = "book:create" /\ req'[c].pc = "idle"

\* C19: a book request adds a reservation only in the step that answers 200: a
\* request that is answered 409, 422 or 500 has left the table of reservations as
\* it was in each of its steps, also when the itinerary of its flight or an airport
\* of that itinerary has been deleted.
FailedBookAddsNothing ==
    [][\A c \in Clients :
          (BookStep(c) /\ ~(last'.op = "book" /\ last'.status = 200)) =>
                /\ reservations' = reservations
                /\ created' = created
                /\ last'.op = "book" => last'.status \in {409, 422, 500}]_vars

\* C19 witness: a book request found its flight, the itinerary of the flight was
\* deleted, and the request was answered 500.
FailedAfterItineraryDelete ==
    /\ last.op = "book"
    /\ last.status = 500
    /\ last.input.FlightID \notin DOMAIN flights
    /\ itineraries = <<>>
    /\ airports # <<>>

\* The flight of client c's book request, in a step of the request.
BookFlight(c) ==
    IF req[c].pc = "idle" THEN BookInput(c).FlightID ELSE req[c].input.FlightID

\* The step in which client c's cancel request runs its DELETE.
CancelDestroys(c) == req[c].pc = "cancel:destroy" /\ req'[c].pc = "idle"

\* The flights other than f keep their numbers of reservations in the step.
OthersKeepCount(f) ==
    \A g \in DOMAIN flights \ {f} :
        Cardinality({r \in DOMAIN reservations' : reservations'[r].FlightID = g})
            = ReservationCount(g)

\* C20: a step of a book request for flight f, and the DELETE of a cancel request
\* for a reservation of flight f, leave the number of reservations of every other
\* flight g as it was, and the book request is turned down as full exactly if f
\* itself has as many reservations as the airplane of f has seats, also when f and
\* g are assigned the same airplane and the requests interleave.
FlightsIndependent ==
    [][\A c \in Clients :
          /\ BookStep(c) => OthersKeepCount(BookFlight(c))
          /\ CancelDestroys(c) => OthersKeepCount(req[c].reservation.FlightID)
          /\ (req[c].pc = "book:count" /\ req'[c].pc # "book:count") =>
                LET f == req[c].input.FlightID
                IN  (last'.error = FlightIsFull) <=> (ReservationCount(f) >= Capacity(f))]_vars

\* C21: with no other request writing in between, the record of a booking answered
\* 200 is an item of the list of its flight, with the same ID, PassengerName and
\* nested flight, and all the items of one list carry one and the same nested
\* flight.
BookedRecordListed ==
    /\ (last.op = "book" /\ last.status = 200 /\ last.clean) =>
            LET f == last.input.FlightID
                rows == ReservationFindAll(f)
            IN  \E i \in 1..Len(rows) :
                    /\ last.body.ID # NULL
                    /\ last.body.ID = rows[i]
                    /\ last.body.PassengerName = reservations[rows[i]].PassengerName
                    /\ last.body.Flight = FlightsFindOne(f)
    /\ (last.op = "list" /\ last.status = 200) =>
            \A i, j \in 1..Len(last.body) : last.body[i].Flight = last.body[j].Flight

\* C22: in every reachable state no two stored airports share a Name, no two
\* stored airplanes share a Name and no two stored itineraries share a Code, also
\* after create requests for the same name or code that ran at the same time and
\* after updates of itineraries and airports.
NamesUnique ==
    /\ \A a, b \in DOMAIN airports : airports[a].Name = airports[b].Name => a = b
    /\ \A a, b \in DOMAIN airplanes : airplanes[a].Name = airplanes[b].Name => a = b
    /\ \A i, j \in DOMAIN itineraries : itineraries[i].Code = itineraries[j].Code => i = j

\* C22 witness: of two create requests for one airplane name that both passed the
\* lookup, one wrote its row and the other was answered 500, while two airports and
\* two itineraries are stored.
DuplicateCreateRefused ==
    /\ last.op = "airplane/create"
    /\ last.status = 500
    /\ \E a \in DOMAIN airplanes : airplanes[a].Name = last.input.Name
    /\ Cardinality(DOMAIN airports) = 2
    /\ Cardinality(DOMAIN itineraries) = 2

\* A request of client c is in flight: its handler is suspended at an await.
InFlight(c) == req[c].pc # "idle"

\* The awaits of one run of a handler, in the order of the code.
Advances(pc, next) ==
    \/ next = pc
    \/ next = "idle"
    \/ pc = "idle" /\ next \in {"book:count", "cancel:destroy", "list:findAll"}
    \/ pc = "book:count" /\ next = "book:create"

\* A step sends a response to client c exactly when it ends a request of c, and
\* the handler of c never goes back to an await it has passed.
OneResponse(c) ==
    /\ Advances(req[c].pc, req'[c].pc)
    /\ (InFlight(c) /\ req'[c].pc = "idle") => (last'.client = c /\ last'.status # 0)
    /\ last'.client = c => (req'[c].pc = "idle" /\ last'.op \in Observed /\ last'.status # 0)

\* C23: every book, cancel and list request that has begun ends with one response,
\* provided each handler is resumed after the store has answered its query; a
\* request in flight can always take its next step, whatever the other requests
\* are doing, and no step of a handler is taken twice.
EveryRequestCompletes ==
    /\ \A c \in Clients : InFlight(c) ~> ~InFlight(c)
    /\ [][\A c \in Clients : OneResponse(c)]_vars
    /\ [](\A c \in Clients : InFlight(c) => ENABLED Resume(c))

\* C23 witness: a book request was answered 200 while the request of the other
\* client, which had begun before, is still in flight.
AnsweredWhileOtherInFlight ==
    /\ last.op = "book"
    /\ last.status = 200
    /\ \E d \in Clients \ {last.client} : req[d].pc \in {"book:count", "book:create",
                                                         "cancel:destroy", "list:findAll"}

====
